---- MODULE Spec2Model ----
(***************************************************************************)
(* A model of the cdk-s3-website repository: the CdkS3WebsiteStack         *)
(* declaration (lib/cdk-s3-website-stack.ts) and the provisioning          *)
(* walk-through its README documents (synth, bootstrap, deploy, manual     *)
(* emptying, destroy), including the validation error the README records   *)
(* and the edit that fixes it.                                             *)
(*                                                                         *)
(* The state is the working copy (the bucket props written in the stack    *)
(* file and the ./website tree), the outcome of the latest CLI run on that *)
(* working copy, and the provisioned state (bootstrap, the stack, its      *)
(* bucket and its outputs).                                                *)
(***************************************************************************)
EXTENDS Naturals, FiniteSets, TLC

VARIABLES
    config,        \* the props passed to new s3.Bucket in the stack file
    website,       \* the version of the ./website asset tree on disk
    run,           \* outcome of the latest CLI command on this working copy
    bootstrapped,  \* whether the environment has been bootstrapped
    stack,         \* the provisioned stack: status, template, resources in place
    bucket,        \* the provisioned bucket: exists, name, objects
    outputs        \* the outputs the provisioned stack exposes

vars == <<config, website, run, bootstrapped, stack, bucket, outputs>>

\* Number of distinct versions of the ./website tree the model distinguishes.
MaxVersion == 2

WebsiteVersions == 1..MaxVersion

---------------------------------------------------------------------------
(* The configuration records                                               *)

\* The construct ids the bucket is given in the README (Step 3) and in the
\* stack file.
BucketIds == {"WebsiteBucket", "SriSriWebsiteBucket"}

\* s3.BlockPublicAccess.BLOCK_ACLS: "Allows public access but blocks ACLs".
BLOCK_ACLS ==
    [blockPublicAcls |-> TRUE, ignorePublicAcls |-> TRUE,
     blockPublicPolicy |-> FALSE, restrictPublicBuckets |-> FALSE]

\* The policy that blocks every public access mode.
BLOCK_ALL ==
    [blockPublicAcls |-> TRUE, ignorePublicAcls |-> TRUE,
     blockPublicPolicy |-> TRUE, restrictPublicBuckets |-> TRUE]

\* The values the blockPublicAccess prop takes; "undefined" is the prop left
\* out, as in the README's Step 3.
BlockPublicAccessValues == {"undefined", "BLOCK_ACLS", "BLOCK_ALL"}

\* Whether a blockPublicAccess value blocks bucket-level public policies.
\* Leaving the prop out does not allow bucket-level public access.
BlocksPublicPolicy(bpa) ==
    CASE bpa = "undefined"  -> TRUE
      [] bpa = "BLOCK_ACLS" -> BLOCK_ACLS.blockPublicPolicy
      [] bpa = "BLOCK_ALL"  -> BLOCK_ALL.blockPublicPolicy

\* The bucket props of README Step 3 (the first version of the stack).
ReadmeStep3Props ==
    [id |-> "WebsiteBucket",
     websiteIndexDocument |-> "index.html",
     publicReadAccess |-> TRUE,
     removalPolicy |-> "DESTROY",
     autoDeleteObjects |-> TRUE,
     blockPublicAccess |-> "undefined"]

\* The declared props with the blockPublicAccess line left out, as they
\* stood before the README's fix.
websiteBucketPropsUnfixed ==
    [id |-> "SriSriWebsiteBucket",
     websiteIndexDocument |-> "index.html",
     publicReadAccess |-> TRUE,
     removalPolicy |-> "DESTROY",
     autoDeleteObjects |-> FALSE,
     blockPublicAccess |-> "undefined"]

\* The bucket props the stack file declares. autoDeleteObjects is not
\* given, which leaves it off.
websiteBucketProps ==
    [id |-> "SriSriWebsiteBucket",
     websiteIndexDocument |-> "index.html",
     publicReadAccess |-> TRUE,
     removalPolicy |-> "DESTROY",
     autoDeleteObjects |-> FALSE,
     blockPublicAccess |-> "BLOCK_ACLS"]

\* The props records an edit of the stack file leaves in it: the values
\* the repository shows for each prop (publicReadAccess is true in every
\* version of the stack), and BLOCK_ALL.
BucketProps ==
    [id : BucketIds,
     websiteIndexDocument : {"index.html"},
     publicReadAccess : {TRUE},
     removalPolicy : {"DESTROY"},
     autoDeleteObjects : BOOLEAN,
     blockPublicAccess : BlockPublicAccessValues]

---------------------------------------------------------------------------
(* The stack declaration                                                   *)

\* A validation that looks only for the prop being left out.
NewBucketThrowsOnlyWhenOmitted(props) ==
    props.publicReadAccess /\ props.blockPublicAccess = "undefined"

\* new s3.Bucket(...) throws: "Cannot use 'publicReadAccess' property on a
\* bucket without allowing bucket-level public access through
\* 'blockPublicAccess' property."
NewBucketThrows(props) ==
    props.publicReadAccess /\ BlocksPublicPolicy(props.blockPublicAccess)

\* What a run that threw leaves: no template.
NoTemplate == [buckets |-> {}, deployments |-> {}, outputs |-> {}]

\* The constructor with the deployment pointed at a bucket the stack does
\* not declare.
CdkS3WebsiteStackForeignBucket(props, site) ==
    [buckets |-> {props},
     deployments |->
        {[id |-> "DeployWebsite", sources |-> site,
          destinationBucket |-> "ImportedBucket"]},
     outputs |->
        {[name |-> "WebsiteURL", kind |-> "bucketWebsiteUrl", of |-> props.id]}]

\* The constructor with the URL written out by hand instead of read from
\* the bucket.
CdkS3WebsiteStackLiteralUrl(props, site) ==
    [buckets |-> {props},
     deployments |->
        {[id |-> "DeployWebsite", sources |-> site,
          destinationBucket |-> props.id]},
     outputs |->
        {[name |-> "WebsiteURL", kind |-> "literal", of |-> "WebsiteBucket"]}]

\* The constructor of CdkS3WebsiteStack: one bucket, one deployment of the
\* ./website asset into that bucket (by reference to the construct, not by
\* name), one output reading the bucket's website URL.
CdkS3WebsiteStack(props, site) ==
    LET websiteBucket == props
    IN [buckets |-> {websiteBucket},
        deployments |->
           {[id |-> "DeployWebsite", sources |-> site,
             destinationBucket |-> websiteBucket.id]},
        outputs |->
           {[name |-> "WebsiteURL", kind |-> "bucketWebsiteUrl",
             of |-> websiteBucket.id]}]

\* Running the app, as every CLI command does first: the constructor either
\* throws out of new s3.Bucket or yields the stack's template.
CdkApp(props, site) ==
    IF NewBucketThrows(props)
    THEN [status |-> "rejected", template |-> NoTemplate]
    ELSE [status |-> "ok", template |-> CdkS3WebsiteStack(props, site)]

---------------------------------------------------------------------------
(* Templates and their resolution at apply                                 *)

BucketIdsOf(t) == {b.id : b \in t.buckets}

ResourceIds(t) == BucketIdsOf(t) \cup {d.id : d \in t.deployments}

DeploymentIdsOf(t) == {d.id : d \in t.deployments}

\* What a template declares under a construct id.
Declared(t, id) ==
    <<{b \in t.buckets : b.id = id}, {d \in t.deployments : d.id = id}>>

\* The resources a new template declares exactly as the old one did.
Unchanged(old, new) ==
    {id \in ResourceIds(new) : Declared(old, id) = Declared(new, id)}

\* A deployment that waits for nothing.
DependsOnNothing(t, id) == {}

\* What a resource waits for: a deployment references its destination
\* bucket, so it is created after it.
DependsOn(t, id) ==
    {d.destinationBucket : d \in {e \in t.deployments : e.id = id}}

\* The objects an upload of version v of ./website puts in the bucket.
AssetFiles(v) == {<<"index.html", v>>, <<"assets", v>>}

\* The name the provisioned bucket gets for a construct id.
PhysicalName(id) == <<"cdks3websitestack", id>>

\* websiteBucket.bucketWebsiteUrl for a provisioned bucket.
bucketWebsiteUrl(name) == <<"http://", name, ".s3-website.amazonaws.com">>

\* The value of a declared output once the stack is applied.
ResolveOutput(o) ==
    [name |-> o.name,
     value |-> IF o.kind = "bucketWebsiteUrl"
               THEN bucketWebsiteUrl(PhysicalName(o.of))
               ELSE <<"http://", <<"literal", o.of>>, ".s3-website.amazonaws.com">>]

NoBucket == [exists |-> FALSE, name |-> <<"", "">>, objects |-> {}]

\* No provisioned stack. A stack holds its status, the template applied (or
\* being applied), the resources of it that are in place, those of them the
\* running apply found unchanged and kept, and, while cdk deploy waits for
\* its answer, the proposed template and the status to go back to.
NoStack ==
    [status |-> "absent", template |-> NoTemplate, created |-> {}, kept |-> {},
     proposed |-> NoTemplate, prior |-> "absent"]

NoRun == [cmd |-> "none", status |-> "none", template |-> NoTemplate]

\* The terminal is taken while a deploy waits for its answer or applies.
TerminalFree == stack.status \notin {"review", "applying"}

---------------------------------------------------------------------------
(* The state after cloning the repository                                  *)

Init ==
    /\ config = websiteBucketProps
    /\ website \in WebsiteVersions
    /\ run = NoRun
    /\ bootstrapped = FALSE
    /\ stack = NoStack
    /\ bucket = NoBucket
    /\ outputs = {}

---------------------------------------------------------------------------
(* Editing the working copy                                                *)

\* An edit of the bucket props in lib/cdk-s3-website-stack.ts. The outcome
\* of the latest run no longer describes the working copy.
EditConfig(p) ==
    /\ p # config
    /\ config' = p
    /\ run' = NoRun
    /\ UNCHANGED <<website, bootstrapped, stack, bucket, outputs>>

\* A change of the files under ./website.
EditWebsite(v) ==
    /\ v # website
    /\ website' = v
    /\ run' = NoRun
    /\ UNCHANGED <<config, bootstrapped, stack, bucket, outputs>>

---------------------------------------------------------------------------
(* The CLI commands                                                        *)

\* cdk synth: runs the app and prints the template.
CdkSynth ==
    /\ TerminalFree
    /\ LET app == CdkApp(config, website)
       IN run' = [cmd |-> "synth", status |-> app.status, template |-> app.template]
    /\ UNCHANGED <<config, website, bootstrapped, stack, bucket, outputs>>

\* cdk bootstrap that bootstraps whether or not the app ran.
CdkBootstrapRegardless ==
    /\ TerminalFree
    /\ LET app == CdkApp(config, website)
       IN run' = [cmd |-> "bootstrap", status |-> app.status, template |-> app.template]
    /\ bootstrapped' = TRUE
    /\ UNCHANGED <<config, website, stack, bucket, outputs>>

\* cdk bootstrap: runs the app; when the app throws, the command ends with
\* the error and the environment is left as it was.
CdkBootstrap ==
    /\ TerminalFree
    /\ LET app == CdkApp(config, website)
       IN /\ run' = [cmd |-> "bootstrap", status |-> app.status,
                     template |-> app.template]
          /\ bootstrapped' = (bootstrapped \/ app.status = "ok")
    /\ UNCHANGED <<config, website, stack, bucket, outputs>>

\* cdk deploy, up to its question: runs the app; when the app throws, the
\* command ends with the error. With a template that differs from what is
\* provisioned it shows the changes and asks "Do you wish to deploy these
\* changes (y/n)?"; with the template that is already applied there is
\* nothing to deploy. The README deploys only in a bootstrapped
\* environment and never over a stack whose deletion failed; what the CLI
\* does otherwise is not in the repository, so there the command may go on
\* or end in failure.
CdkDeploy ==
    /\ TerminalFree
    /\ LET app == CdkApp(config, website)
       IN IF app.status # "ok"
          THEN /\ run' = [cmd |-> "deploy", status |-> "rejected",
                          template |-> app.template]
               /\ stack' = stack
          ELSE \E goesOn \in BOOLEAN :
                 /\ (bootstrapped /\ stack.status # "deleteFailed") => goesOn
                 /\ run' = [cmd |-> "deploy",
                            status |-> IF goesOn THEN "ok" ELSE "failed",
                            template |-> app.template]
                 /\ stack' = IF goesOn /\ app.template # stack.template
                             THEN [stack EXCEPT !.status = "review",
                                                !.proposed = app.template,
                                                !.prior = stack.status]
                             ELSE stack
    /\ UNCHANGED <<config, website, bootstrapped, bucket, outputs>>

\* The answer to the question of cdk deploy. On y the proposed template is
\* applied: the resources it declares as before are kept as they are. The
\* repository does not say whether an apply runs an unchanged deployment
\* again, so it may (rerun) or may not.
Answer(yes, rerun) ==
    /\ stack.status = "review"
    /\ LET same == Unchanged(stack.template, stack.proposed)
           kept == IF rerun THEN same \ DeploymentIdsOf(stack.proposed) ELSE same
       IN stack' = IF yes
                   THEN [status |-> "applying", template |-> stack.proposed,
                         created |-> kept, kept |-> kept,
                         proposed |-> NoTemplate, prior |-> "absent"]
                   ELSE [stack EXCEPT !.status = stack.prior,
                                      !.proposed = NoTemplate,
                                      !.prior = "absent"]
    /\ UNCHANGED <<config, website, run, bootstrapped, bucket, outputs>>

\* The apply brings a bucket of the template in place: the provisioned
\* bucket of that construct id is updated where it is and keeps its
\* objects; otherwise a new, empty bucket is created and is the stack's
\* bucket from then on.
CfnCreateBucket(id) ==
    /\ stack.status = "applying"
    /\ id \in BucketIdsOf(stack.template) \ stack.created
    /\ (DependsOn(stack.template, id) \cap ResourceIds(stack.template)) \subseteq stack.created
    /\ stack' = [stack EXCEPT !.created = @ \cup {id}]
    /\ bucket' = IF bucket.exists /\ bucket.name = PhysicalName(id)
                 THEN bucket
                 ELSE [exists |-> TRUE, name |-> PhysicalName(id), objects |-> {}]
    /\ UNCHANGED <<config, website, run, bootstrapped, outputs>>

\* The apply runs a deployment of the template: the asset is uploaded into
\* the destination bucket.
CfnCreateDeployment(id) ==
    /\ stack.status = "applying"
    /\ id \in (ResourceIds(stack.template) \ BucketIdsOf(stack.template)) \ stack.created
    /\ (DependsOn(stack.template, id) \cap ResourceIds(stack.template)) \subseteq stack.created
    /\ stack' = [stack EXCEPT !.created = @ \cup {id}]
    /\ LET d == CHOOSE e \in stack.template.deployments : e.id = id
       IN bucket' = IF d.destinationBucket \in BucketIdsOf(stack.template)
                    THEN [bucket EXCEPT !.objects = AssetFiles(d.sources)]
                    ELSE bucket
    /\ UNCHANGED <<config, website, run, bootstrapped, outputs>>

\* The apply completes: every resource is created and the outputs are
\* printed.
CfnComplete ==
    /\ stack.status = "applying"
    /\ stack.created = ResourceIds(stack.template)
    /\ stack' = [stack EXCEPT !.status = "applied", !.kept = {}]
    /\ outputs' = {ResolveOutput(o) : o \in stack.template.outputs}
    /\ UNCHANGED <<config, website, run, bootstrapped, bucket>>

\* aws s3 rm s3://<bucket-name> --recursive
EmptyBucket ==
    /\ TerminalFree
    /\ bucket.exists
    /\ bucket.objects # {}
    /\ bucket' = [bucket EXCEPT !.objects = {}]
    /\ UNCHANGED <<config, website, run, bootstrapped, stack, outputs>>

\* The reading of removalPolicy in the comment of README Step 3: "Allow
\* deletion of non-empty bucket".
BucketDeletableByRemovalPolicy(b, props) == props.removalPolicy = "DESTROY"

\* Whether the deletion of the stack can delete its bucket: a bucket that
\* holds objects is deleted only with autoDeleteObjects.
BucketDeletable(b, props) == b.objects = {} \/ props.autoDeleteObjects

\* cdk destroy: runs the app, then deletes the provisioned stack. The
\* deletion goes by the template that was applied.
CdkDestroy ==
    /\ TerminalFree
    /\ LET app == CdkApp(config, website)
           deployed == CHOOSE b \in stack.template.buckets : TRUE
       IN CASE app.status # "ok" ->
                 /\ run' = [cmd |-> "destroy", status |-> "rejected",
                            template |-> app.template]
                 /\ UNCHANGED <<stack, bucket, outputs>>
            [] app.status = "ok" /\ stack.status = "absent" ->
                 /\ run' = [cmd |-> "destroy", status |-> "ok",
                            template |-> app.template]
                 /\ UNCHANGED <<stack, bucket, outputs>>
            [] app.status = "ok" /\ stack.status # "absent"
                 /\ BucketDeletable(bucket, deployed) ->
                 /\ run' = [cmd |-> "destroy", status |-> "ok",
                            template |-> app.template]
                 /\ stack' = NoStack
                 /\ bucket' = NoBucket
                 /\ outputs' = {}
            [] OTHER ->
                 /\ run' = [cmd |-> "destroy", status |-> "failed",
                            template |-> app.template]
                 /\ stack' = [stack EXCEPT !.status = "deleteFailed"]
                 /\ UNCHANGED <<bucket, outputs>>
    /\ UNCHANGED <<config, website, bootstrapped>>

Next ==
    \/ \E p \in BucketProps : EditConfig(p)
    \/ \E v \in WebsiteVersions : EditWebsite(v)
    \/ CdkSynth
    \/ CdkBootstrap
    \/ CdkDeploy
    \/ \E yes, rerun \in BOOLEAN : Answer(yes, rerun)
    \/ \E id \in BucketIds : CfnCreateBucket(id)
    \/ CfnCreateDeployment("DeployWebsite")
    \/ CfnComplete
    \/ EmptyBucket
    \/ CdkDestroy

Spec == Init /\ [][Next]_vars

---------------------------------------------------------------------------
(* Properties                                                              *)

\* The props of the bucket of the applied template.
DeployedProps == CHOOSE b \in stack.template.buckets : TRUE

\* A step of one of the CLI commands that run the app.
CliStep == CdkSynth \/ CdkBootstrap \/ CdkDeploy \/ CdkDestroy

\* The templates the state holds: the one of the latest run and the one of
\* the provisioned stack.
TemplatesHeld == {run.template, stack.template, stack.proposed}

\* C1: whenever a command has run on a working copy whose bucket props ask
\* for public read access under an access-block policy that blocks
\* bucket-level public policies (the prop left out, or BLOCK_ALL), the run
\* ended with the validation error and produced no template.
C1_BlockedPublicReadIsRejected ==
    (/\ run.cmd # "none"
     /\ config.publicReadAccess
     /\ config.blockPublicAccess \in {"undefined", "BLOCK_ALL"})
    => (run.status = "rejected" /\ run.template = NoTemplate)

C1_Witness ==
    /\ run.cmd = "synth"
    /\ config.publicReadAccess
    /\ config.blockPublicAccess = "undefined"
    /\ run.status = "rejected"

\* C2: the props the stack file declares are publicReadAccess with
\* BLOCK_ACLS, a policy that blocks ACLs and not bucket-level policies, and
\* no command run on them ends in the validation error: cdk synth yields
\* the template.
C2_DeclaredConfigIsAccepted ==
    /\ websiteBucketProps.publicReadAccess
    /\ websiteBucketProps.blockPublicAccess = "BLOCK_ACLS"
    /\ BLOCK_ACLS.blockPublicAcls /\ ~BLOCK_ACLS.blockPublicPolicy
    /\ (config = websiteBucketProps /\ run.cmd # "none")
        => /\ run.status # "rejected"
           /\ run.template = CdkS3WebsiteStack(config, website)
           /\ run.template # NoTemplate

C2_Witness ==
    /\ config = websiteBucketProps
    /\ run.cmd = "synth"
    /\ run.status = "ok"

\* C3: a cdk destroy that gets past the app run, on a provisioned stack
\* whose bucket holds objects, deletes the stack and the bucket when the
\* applied template has autoDeleteObjects, and otherwise fails and leaves
\* the bucket and its objects; on a bucket emptied by hand it succeeds.
C3_DestroyNeedsAutoDeleteOrEmptyBucket ==
    [][(/\ CdkDestroy
        /\ stack.status \in {"applied", "deleteFailed"}
        /\ run'.status # "rejected")
       => IF DeployedProps.autoDeleteObjects \/ bucket.objects = {}
          THEN /\ run'.status = "ok"
               /\ stack'.status = "absent"
               /\ ~bucket'.exists
          ELSE /\ run'.status = "failed"
               /\ stack'.status = "deleteFailed"
               /\ bucket' = bucket]_vars

C3_Witness ==
    /\ run.cmd = "destroy"
    /\ run.status = "failed"
    /\ stack.status = "deleteFailed"
    /\ ~DeployedProps.autoDeleteObjects
    /\ bucket.exists
    /\ bucket.objects # {}

\* C4: a cdk destroy that gets past the app run, on the applied stack with
\* the bucket props the stack file declares (removalPolicy DESTROY),
\* removes the bucket, whether or not it holds the uploaded assets.
C4_DestroyRemovesDeclaredBucket ==
    [][(/\ CdkDestroy
        /\ stack.status = "applied"
        /\ DeployedProps = websiteBucketProps
        /\ DeployedProps.removalPolicy = "DESTROY"
        /\ run'.status # "rejected")
       => (~bucket'.exists /\ stack'.status = "absent")]_vars

\* C5: in every template the state holds, synthesized, proposed or applied,
\* the DeployWebsite deployment is there and its destinationBucket is a
\* bucket the same template declares; once that bucket is in place for the
\* stack's template, the provisioned bucket is that bucket.
C5_DestinationIsDeclaredBucket ==
    \A t \in TemplatesHeld :
        t # NoTemplate =>
            /\ \E d \in t.deployments : d.id = "DeployWebsite"
            /\ \A d \in t.deployments : d.destinationBucket \in BucketIdsOf(t)
            /\ t = stack.template =>
                  \A d \in t.deployments :
                      d.destinationBucket \in stack.created =>
                          /\ bucket.exists
                          /\ bucket.name = PhysicalName(d.destinationBucket)

C5_Witness ==
    /\ stack.status = "applied"
    /\ bucket.exists
    /\ run.status = "ok"
    /\ \E d \in stack.template.deployments :
          d.destinationBucket = "SriSriWebsiteBucket"

\* C7: an applied stack exposes exactly one output, WebsiteURL, and its
\* value is the website URL of the provisioned bucket, which is the bucket
\* the applied template declares.
C7_OutputIsBucketWebsiteUrl ==
    stack.status = "applied" =>
        /\ bucket.exists
        /\ bucket.name = PhysicalName(DeployedProps.id)
        /\ outputs = {[name |-> "WebsiteURL", value |-> bucketWebsiteUrl(bucket.name)]}
        /\ Cardinality(outputs) = 1

C7_Witness ==
    /\ stack.status = "applied"
    /\ bucket.objects # {}
    /\ \E o \in outputs : o.name = "WebsiteURL"

\* C9: a CLI command run on a working copy whose bucket props are rejected
\* ends with the rejection and no template, and leaves the bootstrap, the
\* stack, the bucket and the outputs as they were; this holds of every such
\* run, so the rejection recurs until the props are edited.
C9_RejectionChangesNothing ==
    [][(/\ CliStep
        /\ config.publicReadAccess
        /\ config.blockPublicAccess # "BLOCK_ACLS")
       => /\ run'.status = "rejected"
          /\ run'.template = NoTemplate
          /\ UNCHANGED <<config, bootstrapped, stack, bucket, outputs>>]_vars

C9_Witness ==
    /\ run.cmd = "deploy"
    /\ run.status = "rejected"
    /\ bootstrapped
    /\ stack.status = "absent"
    /\ ~bucket.exists
    /\ outputs = {}

====
